---- MODULE Spec2Model ----
(***************************************************************************)
(* Maze analysis of MarekSuchanek/maze: the multi-source breadth-first     *)
(* flood of src/maze/analysis.pyx (flood, directions2reachable), the path  *)
(* reconstruction (build_path) and the MazeAnalysis wrapper that converts  *)
(* the grid to int8 and calls flood.                                       *)
(*                                                                         *)
(* A grid is given as a sequence of rows (what np.array is built from).    *)
(* Inside flood a cell is the pair <<x, y>>, 0-based, x the row index in   *)
(* 0..w-1 and y the column index in 0..h-1, as in the source.              *)
(***************************************************************************)
EXTENDS Integers, Sequences, FiniteSets, TLC

VARIABLES input, maze, w, h, distances, directions, q, is_reachable,
          pc, error, start, row, column, path,
          pushed,   \* history: the cells pushed onto q, in the order of the pushes
          popped,   \* history: the cells popped from q, in the order of the pops
          nbr_order,  \* the order in which the four neighbours are examined
          variant   \* the source file that is run

vars == <<input, maze, w, h, distances, directions, q, is_reachable,
          pc, error, start, row, column, path, pushed, popped, nbr_order, variant>>

(***************************************************************************)
(* Bounds of the model.                                                    *)
(***************************************************************************)
\* a rectangular input grid has at most MaxCells cells
MaxCells == 6
\* a jagged input has at most MaxJaggedRows rows of at most MaxJaggedLen cells
MaxJaggedRows == 2
MaxJaggedLen == 2
\* build_path's walk is cut off after MaxPath coordinates
MaxPath == 12
\* a grid with values outside the int8 range has at most MaxWideCells cells
MaxWideCells == 3
\* a grid flooded in every seed and neighbour order has at most MaxOrderCells cells
MaxOrderCells == 4

\* cell values inside the int8 range: a wall, two open values, a goal
Values == {-1, 0, 1, 2}
\* cell values of the jagged inputs
JaggedValues == {0, 1}
\* cell values of the grids flooded in every order: a wall, an open value, a goal
OrderValues == {-1, 0, 1}
\* cell values on both sides of the int8 range
WideValues == {-129, -1, 0, 1, 127, 128, 255, 256, 257}

(***************************************************************************)
(* Input grids.                                                            *)
(***************************************************************************)
RowsOf(vals, n) == [1..n -> vals]

\* the rectangular grids of at most n cells, the empty ones among them
RectGrids(vals, n) ==
    UNION { [1..r -> RowsOf(vals, c)] :
              <<r, c>> \in { s \in (0..n) \X (0..n) :
                               s[1] * s[2] <= n /\ (s[1] = 0 => s[2] = 0) } }

IsEmptyGrid(g) == Len(g) = 0 \/ \A i \in 1..Len(g) : Len(g[i]) = 0

IsRectangular(g) == \A i \in 1..Len(g) : Len(g[i]) = Len(g[1])

JaggedGrids(vals) ==
    { g \in UNION { [1..r -> UNION { RowsOf(vals, n) : n \in 0..MaxJaggedLen }] :
                      r \in 2..MaxJaggedRows } : ~IsRectangular(g) }

\* a grid with two goals and cells that are as near to one as to the other
TwoGoalGrid == << <<1, 0, 0>>, <<0, 0, 0>>, <<0, 0, 1>> >>

\* the grid of the README's usage example
ReadmeGrid == << <<5, -1, 1>>, <<7, -1, 7>>, <<3, 3, 3>> >>

(***************************************************************************)
(* MazeAnalysis.__init__: maze.astype('int8'), np.atleast_2d.              *)
(***************************************************************************)
\* numpy's cast of an integer to int8 keeps the low 8 bits (two's complement)
astype_int8(v) == ((v + 128) % 256) - 128

\* shape of np.atleast_2d(np.array(g)): an array without rows is 1 x 0
ShapeRows(g) == IF Len(g) = 0 THEN 1 ELSE Len(g)
ShapeCols(g) == IF Len(g) = 0 THEN 0 ELSE Len(g[1])

Cells(ww, hh) == (0..(ww - 1)) \X (0..(hh - 1))

InBounds(x, y, ww, hh) == 0 <= x /\ x < ww /\ 0 <= y /\ y < hh

Converted(g) ==
    [c \in Cells(ShapeRows(g), ShapeCols(g)) |-> astype_int8(g[c[1] + 1][c[2] + 1])]

(***************************************************************************)
(* flood: the seed scan.                                                   *)
(***************************************************************************)
WALL == "#"
GOAL == "X"
NONE == " "

IsWallValue(v) == v < 0
IsGoalValueAtLeast(v) == v >= 1
IsGoalValue(v) == v = 1

\* cells in the order of the nested loops  for x in range(w): for y in range(h)
ScanOrder(ww, hh) ==
    [k \in 1..(ww * hh) |-> <<(k - 1) \div hh, (k - 1) % hh>>]

\* an item that carries the distance of the popped cell, not of the pushed one
qitemStale(x, y, d) == [x |-> x, y |-> y, distance |-> IF d = 0 THEN 0 ELSE d - 1]
qitem(x, y, d) == [x |-> x, y |-> y, distance |-> d]

SeedDistancesUnset(m, ww, hh) == [c \in Cells(ww, hh) |-> -1]
SeedDistances(m, ww, hh) ==
    [c \in Cells(ww, hh) |->
        IF IsWallValue(m[c]) THEN -1 ELSE IF IsGoalValue(m[c]) THEN 0 ELSE -1]

SeedDirections(m, ww, hh) ==
    [c \in Cells(ww, hh) |->
        IF IsWallValue(m[c]) THEN WALL ELSE IF IsGoalValue(m[c]) THEN GOAL ELSE NONE]

\* a seed scan that pushes the goals last to first
RECURSIVE SeedQueueReversed(_, _, _)
SeedQueueReversed(m, order, k) ==
    IF k > Len(order) THEN << >>
    ELSE LET c == order[k]
             rest == SeedQueueReversed(m, order, k + 1)
         IN  IF ~IsWallValue(m[c]) /\ IsGoalValue(m[c])
             THEN rest \o <<qitem(c[1], c[2], 0)>>
             ELSE rest

RECURSIVE SeedQueue(_, _, _)
SeedQueue(m, order, k) ==
    IF k > Len(order) THEN << >>
    ELSE LET c == order[k]
             rest == SeedQueue(m, order, k + 1)
         IN  IF ~IsWallValue(m[c]) /\ IsGoalValue(m[c])
             THEN <<qitem(c[1], c[2], 0)>> \o rest
             ELSE rest

(***************************************************************************)
(* flood: the expansion loop.                                              *)
(***************************************************************************)
dir_offsets == << <<1, 0>>, <<-1, 0>>, <<0, 1>>, <<0, -1>> >>
dir_charsFlipped == <<"v", "^", ">", "<">>
dir_chars == <<"^", "v", "<", ">">>

\* q.front() and q.pop()
DequeueLifo(qq) == [item |-> qq[Len(qq)], rest |-> SubSeq(qq, 1, Len(qq) - 1)]
Dequeue(qq) == [item |-> Head(qq), rest |-> Tail(qq)]

\* the guard of line 60
DiscoversZeroOnly(m, dist, c) == m[c] = 0 /\ dist[c] = -1
DiscoversNotPositive(m, dist, c) == m[c] >= 0 /\ dist[c] <= 0
Discovers(m, dist, c) == m[c] >= 0 /\ dist[c] = -1

\* the body of  for i in range(4)  from index i on; st holds the two fields
\* and the queue
RECURSIVE Expand(_, _, _, _, _, _)
Expand(st, m, ww, hh, item, i) ==
    IF i > 4 THEN st
    ELSE LET x == item.x + dir_offsets[i][1]
             y == item.y + dir_offsets[i][2]
             c == <<x, y>>
         IN  IF InBounds(x, y, ww, hh) /\ Discovers(m, st.distances, c)
             THEN Expand([distances |-> [st.distances EXCEPT ![c] = item.distance + 1],
                          directions |-> [st.directions EXCEPT ![c] = dir_chars[i]],
                          q |-> Append(st.q, qitem(x, y, item.distance + 1))],
                         m, ww, hh, item, i + 1)
             ELSE Expand(st, m, ww, hh, item, i + 1)

\* the same body with the four neighbours examined in the order ord, a
\* permutation of the indices of dir_offsets
RECURSIVE ExpandInOrder(_, _, _, _, _, _, _)
ExpandInOrder(st, m, ww, hh, item, k, ord) ==
    IF k > 4 THEN st
    ELSE LET i == ord[k]
             x == item.x + dir_offsets[i][1]
             y == item.y + dir_offsets[i][2]
             c == <<x, y>>
         IN  IF InBounds(x, y, ww, hh) /\ Discovers(m, st.distances, c)
             THEN ExpandInOrder(
                     [distances |-> [st.distances EXCEPT ![c] = item.distance + 1],
                      directions |-> [st.directions EXCEPT ![c] = dir_chars[i]],
                      q |-> Append(st.q, qitem(x, y, item.distance + 1))],
                     m, ww, hh, item, k + 1, ord)
             ELSE ExpandInOrder(st, m, ww, hh, item, k + 1, ord)

\* the while loop run to its end
RECURSIVE RunLoop(_, _, _, _)
RunLoop(st, m, ww, hh) ==
    IF st.q = << >> THEN st
    ELSE LET d == Dequeue(st.q)
         IN  RunLoop(Expand([distances |-> st.distances, directions |-> st.directions,
                             q |-> d.rest], m, ww, hh, d.item, 1), m, ww, hh)

(***************************************************************************)
(* directions2reachable.                                                   *)
(***************************************************************************)
directions2reachableWall(dirs, ww, hh) ==
    ~ \E x \in 0..(ww - 1) : \E y \in 0..(hh - 1) : dirs[<<x, y>>] = WALL
directions2reachable(dirs, ww, hh) ==
    ~ \E x \in 0..(ww - 1) : \E y \in 0..(hh - 1) : dirs[<<x, y>>] = NONE

\* flood as a function of its arguments: what it returns
FloodResult(m, ww, hh) ==
    LET st == RunLoop([distances |-> SeedDistances(m, ww, hh),
                       directions |-> SeedDirections(m, ww, hh),
                       q |-> SeedQueue(m, ScanOrder(ww, hh), 1)], m, ww, hh)
    IN  [distances |-> st.distances, directions |-> st.directions,
         is_reachable |-> directions2reachable(st.directions, ww, hh)]

(***************************************************************************)
(* build_path.                                                             *)
(***************************************************************************)
\* the start-cell guard of line 71
NoPathStartWallOnly(tag) == tag = WALL
NoPathStart(tag) == tag = WALL \/ tag = NONE

\* the map dirs; operator[] of a std::map gives coords(0, 0) for a missing key
dirsRowsSwapped(tag) ==
    CASE tag = "v" -> <<-1, 0>>
      [] tag = "^" -> <<1, 0>>
      [] tag = ">" -> <<0, 1>>
      [] tag = "<" -> <<0, -1>>
      [] OTHER -> <<0, 0>>
dirs(tag) ==
    CASE tag = "v" -> <<1, 0>>
      [] tag = "^" -> <<-1, 0>>
      [] tag = ">" -> <<0, 1>>
      [] tag = "<" -> <<0, -1>>
      [] OTHER -> <<0, 0>>

(***************************************************************************)
(* The state machine.                                                      *)
(***************************************************************************)
Unset == "unset"

\* for i in range(4): the neighbours are examined in the order of dir_offsets
CodeOrder == <<1, 2, 3, 4>>

\* the cells of a sequence of queue items
CellsOf(qq) == [k \in 1..Len(qq) |-> <<qq[k].x, qq[k].y>>]

InitWith(grids) ==
    /\ input \in grids
    /\ maze = Unset /\ w = 0 /\ h = 0
    /\ distances = Unset /\ directions = Unset /\ q = << >>
    /\ is_reachable = Unset
    /\ pc = "new" /\ error = "none"
    /\ start = Unset /\ row = 0 /\ column = 0 /\ path = << >>
    /\ pushed = << >> /\ popped = << >>
    /\ nbr_order = CodeOrder
    /\ variant = "analysis.pyx"

Init == InitWith(RectGrids(Values, MaxCells) \cup JaggedGrids(JaggedValues) \cup {ReadmeGrid})

InitWide == InitWith(RectGrids(WideValues, MaxWideCells))

\* a constructor that turns an empty grid away
ConvertRejectingEmpty ==
    /\ pc = "new"
    /\ IF IsRectangular(input) /\ ~IsEmptyGrid(input)
       THEN /\ maze' = Converted(input)
            /\ w' = ShapeRows(input)
            /\ h' = ShapeCols(input)
            /\ pc' = "converted"
            /\ error' = error
       ELSE /\ pc' = "failed"
            /\ error' = "ValueError"
            /\ UNCHANGED <<maze, w, h>>
    /\ UNCHANGED <<input, distances, directions, q, is_reachable,
                   start, row, column, path, pushed, popped, nbr_order, variant>>

\* MazeAnalysis.__init__, line 95: the conversion of a jagged array raises
\* numpy's ValueError, a rectangular one becomes flood's int8 argument
Convert ==
    /\ pc = "new"
    /\ IF IsRectangular(input)
       THEN /\ maze' = Converted(input)
            /\ w' = ShapeRows(input)
            /\ h' = ShapeCols(input)
            /\ pc' = "converted"
            /\ error' = error
       ELSE /\ pc' = "failed"
            /\ error' = "ValueError"
            /\ UNCHANGED <<maze, w, h>>
    /\ UNCHANGED <<input, distances, directions, q, is_reachable,
                   start, row, column, path, pushed, popped, nbr_order, variant>>

\* flood, lines 38-48
FloodSeed ==
    /\ pc = "converted"
    /\ pc' = "loop"
    /\ distances' = SeedDistances(maze, w, h)
    /\ directions' = SeedDirections(maze, w, h)
    /\ q' = SeedQueue(maze, ScanOrder(w, h), 1)
    /\ pushed' = CellsOf(SeedQueue(maze, ScanOrder(w, h), 1))
    /\ UNCHANGED <<input, maze, w, h, is_reachable, error, start, row, column, path,
                   popped, nbr_order, variant>>

\* flood, lines 52-63: one iteration of the while loop
FloodPop ==
    /\ pc = "loop"
    /\ q # << >>
    /\ LET d == Dequeue(q)
           st == Expand([distances |-> distances, directions |-> directions,
                         q |-> d.rest], maze, w, h, d.item, 1)
       IN  /\ distances' = st.distances
           /\ directions' = st.directions
           /\ q' = st.q
           /\ popped' = Append(popped, <<d.item.x, d.item.y>>)
           /\ pushed' = pushed \o CellsOf(SubSeq(st.q, Len(d.rest) + 1, Len(st.q)))
    /\ UNCHANGED <<input, maze, w, h, is_reachable, pc, error, start, row, column, path,
                   nbr_order, variant>>

\* flood, line 65, and the assignment of line 96
FloodReturn ==
    /\ pc = "loop"
    /\ q = << >>
    /\ pc' = "done"
    /\ is_reachable' = directions2reachable(directions, w, h)
    /\ UNCHANGED <<input, maze, w, h, distances, directions, q, error,
                   start, row, column, path, pushed, popped, nbr_order, variant>>

\* MazeAnalysis.path -> build_path, lines 71-79, for an in-bounds start cell
PathCall ==
    /\ pc = "done"
    /\ \E c \in Cells(w, h) :
          /\ start' = c
          /\ row' = c[1]
          /\ column' = c[2]
          /\ IF NoPathStart(directions[c])
             THEN /\ pc' = "raised"
                  /\ error' = "NoPathExistsException"
                  /\ path' = path
             ELSE /\ pc' = "walk"
                  /\ error' = error
                  /\ path' = <<c>>
    /\ UNCHANGED <<input, maze, w, h, distances, directions, q, is_reachable,
                   pushed, popped, nbr_order, variant>>

\* build_path, lines 80-84: one iteration of the while loop; the arrays are
\* read with boundscheck(False), a read outside them is undefined
PathStep ==
    /\ pc = "walk"
    /\ Len(path) < MaxPath
    /\ InBounds(row, column, w, h)
    /\ directions[<<row, column>>] # GOAL
    /\ LET d == dirs(directions[<<row, column>>])
       IN  /\ row' = row + d[1]
           /\ column' = column + d[2]
           /\ path' = Append(path, <<row + d[1], column + d[2]>>)
           /\ pc' = IF InBounds(row + d[1], column + d[2], w, h) THEN "walk" ELSE "undefined"
    /\ UNCHANGED <<input, maze, w, h, distances, directions, q, is_reachable,
                   error, start, pushed, popped, nbr_order, variant>>

\* build_path, line 85
PathReturn ==
    /\ pc = "walk"
    /\ InBounds(row, column, w, h)
    /\ directions[<<row, column>>] = GOAL
    /\ pc' = "returned"
    /\ UNCHANGED <<input, maze, w, h, distances, directions, q, is_reachable,
                   error, start, row, column, path, pushed, popped, nbr_order, variant>>

\* the orders of a sequence
Reorderings(seq) ==
    { [k \in 1..Len(seq) |-> seq[p[k]]] : p \in Permutations(1..Len(seq)) }

\* flood, lines 38-48, with the goals pushed in any order
FloodSeedAnyOrder ==
    /\ pc = "converted"
    /\ pc' = "loop"
    /\ distances' = SeedDistances(maze, w, h)
    /\ directions' = SeedDirections(maze, w, h)
    /\ q' \in Reorderings(SeedQueue(maze, ScanOrder(w, h), 1))
    /\ pushed' = CellsOf(q')
    /\ UNCHANGED <<input, maze, w, h, is_reachable, error, start, row, column, path,
                   popped, nbr_order, variant>>

\* flood, lines 52-63, with the neighbours examined in the order nbr_order
FloodPopInOrder ==
    /\ pc = "loop"
    /\ q # << >>
    /\ LET d == Dequeue(q)
           st == ExpandInOrder([distances |-> distances, directions |-> directions,
                                q |-> d.rest], maze, w, h, d.item, 1, nbr_order)
       IN  /\ distances' = st.distances
           /\ directions' = st.directions
           /\ q' = st.q
           /\ popped' = Append(popped, <<d.item.x, d.item.y>>)
           /\ pushed' = pushed \o CellsOf(SubSeq(st.q, Len(d.rest) + 1, Len(st.q)))
    /\ UNCHANGED <<input, maze, w, h, is_reachable, pc, error, start, row, column, path,
                   nbr_order, variant>>

(***************************************************************************)
(* The other variants of the analysis: src/maze.pyx and the three drafts   *)
(* src/unnamed/part_000, part_001 and part_002. Their seed scan and their  *)
(* loop are those of analysis.pyx; they differ in the conversion of the    *)
(* grid, in how is_reachable is computed and in the start-cell guard of    *)
(* path.                                                                   *)
(***************************************************************************)
Variants == {"analysis.pyx", "maze.pyx", "part_000", "part_001", "part_002"}

\* np.atleast_2d(maze) alone: the values stay as given
Unconverted(g) ==
    [c \in Cells(ShapeRows(g), ShapeCols(g)) |-> g[c[1] + 1][c[2] + 1]]

ConvertedAs(v, g) == IF v = "analysis.pyx" THEN Converted(g) ELSE Unconverted(g)

\* b' ' not in self.directions
NoneNotIn(field) == \A c \in DOMAIN field : field[c] # NONE

ReachableAs(v, field, ww, hh) ==
    IF v = "analysis.pyx" THEN directions2reachable(field, ww, hh) ELSE NoneNotIn(field)

\* the drafts part_000 and part_002 test the distance, the others the tag
NoPathStartAs(v, dist, tag) ==
    IF v \in {"part_000", "part_002"} THEN dist < 0 ELSE NoPathStart(tag)

ConvertVariant ==
    /\ pc = "new"
    /\ IsRectangular(input)
    /\ maze' = ConvertedAs(variant, input)
    /\ w' = ShapeRows(input)
    /\ h' = ShapeCols(input)
    /\ pc' = "converted"
    /\ UNCHANGED <<input, distances, directions, q, is_reachable, error,
                   start, row, column, path, pushed, popped, nbr_order, variant>>

FloodReturnVariant ==
    /\ pc = "loop"
    /\ q = << >>
    /\ pc' = "done"
    /\ is_reachable' = ReachableAs(variant, directions, w, h)
    /\ UNCHANGED <<input, maze, w, h, distances, directions, q, error,
                   start, row, column, path, pushed, popped, nbr_order, variant>>

PathCallVariant ==
    /\ pc = "done"
    /\ \E c \in Cells(w, h) :
          /\ start' = c
          /\ row' = c[1]
          /\ column' = c[2]
          /\ IF NoPathStartAs(variant, distances[c], directions[c])
             THEN /\ pc' = "raised"
                  /\ error' = "NoPathExistsException"
                  /\ path' = path
             ELSE /\ pc' = "walk"
                  /\ error' = error
                  /\ path' = <<c>>
    /\ UNCHANGED <<input, maze, w, h, distances, directions, q, is_reachable,
                   pushed, popped, nbr_order, variant>>

Next ==
    \/ Convert
    \/ FloodSeed
    \/ FloodPop
    \/ FloodReturn
    \/ PathCall
    \/ PathStep
    \/ PathReturn

Spec == Init /\ [][Next]_vars

SpecWide == InitWide /\ [][Next]_vars

\* flood with every order of the seeds and every order of the neighbours
InitOrder ==
    /\ input \in RectGrids(OrderValues, MaxOrderCells) \cup {ReadmeGrid, TwoGoalGrid}
    /\ maze = Unset /\ w = 0 /\ h = 0
    /\ distances = Unset /\ directions = Unset /\ q = << >>
    /\ is_reachable = Unset
    /\ pc = "new" /\ error = "none"
    /\ start = Unset /\ row = 0 /\ column = 0 /\ path = << >>
    /\ pushed = << >> /\ popped = << >>
    /\ nbr_order \in Permutations(1..4)
    /\ variant = "analysis.pyx"

NextOrder ==
    \/ Convert
    \/ FloodSeedAnyOrder
    \/ FloodPopInOrder
    \/ FloodReturn

SpecOrder == InitOrder /\ [][NextOrder]_vars

\* every variant on every grid, values outside the int8 range included
InitVariants ==
    /\ input \in RectGrids(WideValues, MaxWideCells)
    /\ maze = Unset /\ w = 0 /\ h = 0
    /\ distances = Unset /\ directions = Unset /\ q = << >>
    /\ is_reachable = Unset
    /\ pc = "new" /\ error = "none"
    /\ start = Unset /\ row = 0 /\ column = 0 /\ path = << >>
    /\ pushed = << >> /\ popped = << >>
    /\ nbr_order = CodeOrder
    /\ variant \in Variants

NextVariants ==
    \/ ConvertVariant
    \/ FloodSeed
    \/ FloodPop
    \/ FloodReturnVariant
    \/ PathCallVariant
    \/ PathStep
    \/ PathReturn

SpecVariants == InitVariants /\ [][NextVariants]_vars

(***************************************************************************)
(* Reference notions the properties are stated against.                    *)
(***************************************************************************)
\* flood has returned, and no path has been asked for yet
Returned == pc = "done"
\* flood has returned at some earlier point
Flooded == pc \in {"done", "walk", "returned", "raised", "undefined"}

Adjacent(a, b) ==
    \/ a[1] = b[1] /\ (a[2] = b[2] + 1 \/ b[2] = a[2] + 1)
    \/ a[2] = b[2] /\ (a[1] = b[1] + 1 \/ b[1] = a[1] + 1)

NonWall(m, ww, hh) == { c \in Cells(ww, hh) : m[c] >= 0 }
Goals(m, ww, hh) == { c \in Cells(ww, hh) : m[c] = 1 }

\* acc[c] = k for the cells whose shortest cardinal path through non-wall
\* cells to a goal has k hops: the cells at k+1 hops are the non-wall cells
\* not nearer that touch a cell at k hops
RECURSIVE HopsFrom(_, _, _, _, _)
HopsFrom(open, frontier, seen, k, acc) ==
    IF frontier = {} THEN acc
    ELSE LET next == { c \in open \ seen : \E n \in frontier : Adjacent(c, n) }
         IN  HopsFrom(open, next, seen \cup next, k + 1,
                      [c \in DOMAIN acc |-> IF c \in frontier THEN k ELSE acc[c]])

\* the length of the shortest path to the nearest goal, -1 where none exists
ShortestHops(m, ww, hh) ==
    HopsFrom(NonWall(m, ww, hh), Goals(m, ww, hh), Goals(m, ww, hh), 0,
             [c \in Cells(ww, hh) |-> -1])

(***************************************************************************)
(* C1: after flood returns, the distance of every cell is the length of    *)
(* the shortest cardinal path through non-wall cells to the nearest goal   *)
(* (0 on a goal), and -1 for every wall and every cell without such a path.*)
(***************************************************************************)
C1_ExactDistances == Returned => distances = ShortestHops(maze, w, h)

\* two goals, a cell three hops away, a wall and an open cell cut off
C1_Witness ==
    /\ pc = "done"
    /\ Cardinality(Goals(maze, w, h)) >= 2
    /\ \E c \in Cells(w, h) : distances[c] >= 2
    /\ \E c \in Cells(w, h) : maze[c] < 0
    /\ \E c \in Cells(w, h) : maze[c] >= 0 /\ distances[c] = -1

(***************************************************************************)
(* C2: in the direction field flood returns, a cell is tagged '#' iff its  *)
(* grid value is negative, 'X' iff its value is 1, ' ' iff it is a         *)
(* non-wall, non-goal cell with no path to a goal, and every other cell    *)
(* carries one of '^', 'v', '<', '>' whose build_path offset leads to an   *)
(* in-bounds, non-wall cell exactly one hop nearer a goal.                 *)
(***************************************************************************)
Arrows == {"^", "v", "<", ">"}

ArrowOffset(tag) ==
    CASE tag = "^" -> <<-1, 0>>
      [] tag = "v" -> <<1, 0>>
      [] tag = "<" -> <<0, -1>>
      [] tag = ">" -> <<0, 1>>

C2_DirectionTags ==
    Returned =>
      LET hops == ShortestHops(maze, w, h) IN
      \A c \in Cells(w, h) :
        /\ directions[c] = WALL <=> maze[c] < 0
        /\ directions[c] = GOAL <=> maze[c] = 1
        /\ directions[c] = NONE <=> (maze[c] >= 0 /\ maze[c] # 1 /\ hops[c] = -1)
        /\ directions[c] \notin {WALL, GOAL, NONE} =>
             /\ directions[c] \in Arrows
             /\ dirs(directions[c]) = ArrowOffset(directions[c])
             /\ LET t == <<c[1] + dirs(directions[c])[1], c[2] + dirs(directions[c])[2]>>
                IN  /\ InBounds(t[1], t[2], w, h)
                    /\ maze[t] >= 0
                    /\ distances[t] = distances[c] - 1

\* a field with a wall, a goal and three different arrows
C2_Witness ==
    /\ pc = "done"
    /\ \E c \in Cells(w, h) : directions[c] = WALL
    /\ \E c \in Cells(w, h) : directions[c] = GOAL
    /\ Cardinality({ directions[c] : c \in Cells(w, h) } \cap Arrows) >= 3

(***************************************************************************)
(* C3: from a start cell whose tag is neither WALL nor NONE, path returns  *)
(* a list that begins with the start cell, ends on a goal cell, moves one  *)
(* cardinal step between consecutive elements and has                      *)
(* distances[start] + 1 elements; the walk stays inside the grid and ends  *)
(* after exactly distances[start] steps.                                   *)
(***************************************************************************)
C3_PathShape ==
    /\ pc # "undefined"
    /\ pc = "done" =>
         \A c \in Cells(w, h) : ~NoPathStart(directions[c]) => distances[c] >= 0
    /\ pc \in {"walk", "returned"} =>
         /\ ~NoPathStart(directions[start])
         /\ path[1] = start
         /\ path[Len(path)] = <<row, column>>
         /\ \A i \in 1..Len(path) : path[i] \in Cells(w, h)
         /\ \A i \in 1..(Len(path) - 1) : Adjacent(path[i], path[i + 1])
         /\ distances[<<row, column>>] = distances[start] - (Len(path) - 1)
    /\ pc = "returned" =>
         /\ Len(path) = distances[start] + 1
         /\ distances[path[Len(path)]] = 0
         /\ maze[path[Len(path)]] = 1

\* a returned path of at least four cells that changes row and column
C3_Witness ==
    /\ pc = "returned"
    /\ Len(path) >= 4
    /\ path[1][1] # path[Len(path)][1]
    /\ path[1][2] # path[Len(path)][2]

(***************************************************************************)
(* C4: path on an in-bounds wall or unreachable cell raises the no-path    *)
(* error before any coordinate is appended and returns no list; it raises  *)
(* for no other in-bounds start cell.                                      *)
(***************************************************************************)
PathCalled == pc \in {"walk", "returned", "raised", "undefined"}

C4_NoPathRaises ==
    PathCalled =>
      LET bad == maze[start] < 0 \/ ShortestHops(maze, w, h)[start] = -1
      IN  /\ bad <=> pc = "raised"
          /\ bad <=> directions[start] \in {WALL, NONE}
          /\ pc = "raised" => (path = << >> /\ error = "NoPathExistsException")
          /\ pc # "raised" => error = "none"

\* the error was raised for an open cell that no goal reaches, in a grid with a goal
C4_Witness ==
    /\ pc = "raised"
    /\ maze[start] >= 0
    /\ Goals(maze, w, h) # {}

InputValue(c) == input[c[1] + 1][c[2] + 1]

C7_ClassPreserved ==
    (pc = "loop" \/ Flooded) =>
      \A c \in Cells(w, h) :
        /\ directions[c] = GOAL <=> InputValue(c) = 1
        /\ directions[c] = WALL <=> InputValue(c) < 0
        /\ directions[c] \notin {WALL, GOAL} <=> (InputValue(c) >= 0 /\ InputValue(c) # 1)

(***************************************************************************)
(* C8: -1 in the distance field coincides with a WALL or NONE tag and 0    *)
(* with a GOAL tag, so the start-cell guards distances < 0 and             *)
(* tag in {'#', ' '} accept and reject the same cells.                     *)
(***************************************************************************)
C8_SentinelTags ==
    Returned =>
      \A c \in Cells(w, h) :
        /\ distances[c] = -1 <=> directions[c] \in {WALL, NONE}
        /\ distances[c] = 0 <=> directions[c] = GOAL
        /\ distances[c] < 0 <=> NoPathStart(directions[c])

\* a field with a wall, an unreachable cell, a goal and a reached cell
C8_Witness ==
    /\ pc = "done"
    /\ \A t \in {WALL, NONE, GOAL} : \E c \in Cells(w, h) : directions[c] = t
    /\ \E c \in Cells(w, h) : distances[c] >= 1

(***************************************************************************)
(* C9: in a grid without a goal flood leaves every non-wall cell with      *)
(* distance -1 and tag NONE, and is_reachable is false unless the grid has *)
(* no non-wall cell, in which case it is true.                             *)
(***************************************************************************)
C9_NoGoal ==
    (Returned /\ Goals(maze, w, h) = {}) =>
      /\ \A c \in NonWall(maze, w, h) : distances[c] = -1 /\ directions[c] = NONE
      /\ is_reachable <=> NonWall(maze, w, h) = {}

\* a grid without a goal, with walls and open cells of both open values
C9_Witness ==
    /\ pc = "done"
    /\ Goals(maze, w, h) = {}
    /\ \E c \in Cells(w, h) : maze[c] < 0
    /\ \E c \in Cells(w, h) : maze[c] = 0
    /\ \E c \in Cells(w, h) : maze[c] = 2
    /\ is_reachable = FALSE

(***************************************************************************)
(* C10: the README's example [[5,-1,1],[7,-1,7],[3,3,3]] gives distances   *)
(* [[6,-1,0],[5,-1,1],[4,3,2]], directions [[v,#,X],[v,#,^],[>,>,^]],      *)
(* is_reachable true, path(0,0) = (0,0),(1,0),(2,0),(2,1),(2,2),(1,2),     *)
(* (0,2), and path(1,1) raises the no-path error.                          *)
(***************************************************************************)
FieldOf(rows) ==
    [c \in Cells(Len(rows), Len(rows[1])) |-> rows[c[1] + 1][c[2] + 1]]

Occurrences(seq, c) == Cardinality({ k \in 1..Len(seq) : seq[k] = c })

\* inside flood's loop, or at flood's return
InFlood == pc = "loop" \/ Returned

C11_FloodTerminates ==
    InFlood =>
      /\ pushed = popped \o CellsOf(q)
      /\ Len(popped) <= w * h
      /\ \A c \in Cells(w, h) :
           /\ Occurrences(pushed, c) <= 1
           /\ Occurrences(pushed, c) = 1 <=> distances[c] >= 0
           /\ maze[c] = 1 =>
                \E k \in 1..Cardinality(Goals(maze, w, h)) : pushed[k] = c
           /\ maze[c] < 0 => Occurrences(pushed, c) = 0
      /\ Returned =>
           /\ q = << >>
           /\ popped = pushed
           /\ LET hops == ShortestHops(maze, w, h)
              IN  \A c \in Cells(w, h) : Occurrences(popped, c) = 1 <=> hops[c] >= 0

\* the loop has ended after as many pops as the grid has cells, two of them goals
C11_Witness ==
    /\ pc = "done"
    /\ Len(popped) = w * h
    /\ w * h >= 6
    /\ Cardinality(Goals(maze, w, h)) = 2

(***************************************************************************)
(* C15: at every point of flood's main loop the queue is level-ordered:    *)
(* the distances the items carry do not decrease from front to back, the   *)
(* back item's distance exceeds the front item's by at most 1, every       *)
(* item's distance is the value stored in the distance field for its cell, *)
(* and no cell is in the queue twice.                                      *)
(***************************************************************************)
C15_LevelOrderedQueue ==
    pc = "loop" =>
      /\ \A i \in 1..(Len(q) - 1) : q[i].distance <= q[i + 1].distance
      /\ q # << >> => q[Len(q)].distance - q[1].distance <= 1
      /\ \A i \in 1..Len(q) : q[i].distance = distances[<<q[i].x, q[i].y>>]
      /\ \A i, j \in 1..Len(q) : (q[i].x = q[j].x /\ q[i].y = q[j].y) => i = j

\* in the loop, a queue of at least three items on two levels, after a pop
C15_Witness ==
    /\ pc = "loop"
    /\ Len(q) >= 3
    /\ q[1].distance >= 1
    /\ q[Len(q)].distance = q[1].distance + 1

(***************************************************************************)
(* C13: when a cell at distance d has several neighbours at distance d-1   *)
(* whose direction chains end at different goals, its direction leads to a *)
(* neighbour whose chain ends at the goal that is earliest in row-major    *)
(* scan order among those goals; among the neighbours whose chains end at  *)
(* that goal, the one popped from the queue first wins.                    *)
(***************************************************************************)
\* the goal at the end of the direction chain of a reached cell
RECURSIVE Origin(_, _)
Origin(field, c) ==
    IF field[c] = GOAL THEN c
    ELSE Origin(field, <<c[1] + dirs(field[c])[1], c[2] + dirs(field[c])[2]>>)

\* position of a cell in the scan  for x in range(w): for y in range(h)
ScanRank(c) == c[1] * h + c[2]

PopIndex(c) == CHOOSE k \in 1..Len(popped) : popped[k] = c

\* the neighbours of c that are one hop nearer a goal
Nearer(c) ==
    { n \in Cells(w, h) : Adjacent(n, c) /\ maze[n] >= 0 /\ distances[n] = distances[c] - 1 }

Target(c) == <<c[1] + dirs(directions[c])[1], c[2] + dirs(directions[c])[2]>>

C13_TieBreak ==
    Returned =>
      \A c \in Cells(w, h) :
        distances[c] >= 1 =>
          /\ Target(c) \in Nearer(c)
          /\ \A n \in Nearer(c) :
               /\ ScanRank(Origin(directions, Target(c))) <= ScanRank(Origin(directions, n))
               /\ Origin(directions, n) = Origin(directions, Target(c)) =>
                    PopIndex(Target(c)) <= PopIndex(n)

\* a cell between neighbours of two goals that took the direction of the
\* earlier goal, although its neighbour of the later goal lies in a
\* direction that the loop examines earlier
C13_Witness ==
    /\ pc = "done"
    /\ \E c \in Cells(w, h) :
         /\ distances[c] >= 2
         /\ \E n \in Nearer(c) :
              /\ Origin(directions, n) # Origin(directions, Target(c))
              /\ directions[c] \in {"<", ">"}
              /\ n[2] = c[2]

(***************************************************************************)
(* C12: the distance field and is_reachable do not depend on the order in  *)
(* which the goals are seeded nor on the order in which the four           *)
(* neighbours of a popped cell are examined: every order gives the         *)
(* distances and the reachability of the code's order, and only the        *)
(* direction tags of reached non-goal cells may differ.                    *)
(***************************************************************************)
C12_OrderIndependent ==
    Returned =>
      LET code == FloodResult(maze, w, h) IN
      /\ distances = code.distances
      /\ is_reachable = code.is_reachable
      /\ \A c \in Cells(w, h) :
           directions[c] # code.directions[c] =>
             (maze[c] >= 0 /\ maze[c] # 1 /\ distances[c] >= 1)

\* another neighbour order and another seed order gave other directions
C12_Witness ==
    /\ pc = "done"
    /\ nbr_order # CodeOrder
    /\ SubSeq(pushed, 1, Cardinality(Goals(maze, w, h)))
         # CellsOf(SeedQueue(maze, ScanOrder(w, h), 1))
    /\ directions # FloodResult(maze, w, h).directions

(***************************************************************************)
(* C14: the variants of the analysis behave identically: for every grid    *)
(* and every in-bounds start cell they give the same distances, the same   *)
(* directions, the same is_reachable and the same path or no-path error.   *)
(* Stated against analysis.pyx: what the variant that ran produced is what *)
(* analysis.pyx produces for the same grid.                                *)
(***************************************************************************)
\* build_path on a direction field, as a function of the start cell
RECURSIVE WalkFrom(_, _, _)
WalkFrom(field, c, n) ==
    IF field[c] = GOAL \/ n = 0 THEN <<c>>
    ELSE <<c>> \o WalkFrom(field, <<c[1] + dirs(field[c])[1], c[2] + dirs(field[c])[2]>>,
                           n - 1)

C14_VariantsAgree ==
    LET ref == FloodResult(Converted(input), w, h) IN
    /\ Returned =>
         /\ distances = ref.distances
         /\ directions = ref.directions
         /\ is_reachable = ref.is_reachable
    /\ PathCalled => (pc = "raised" <=> NoPathStart(ref.directions[start]))
    /\ pc = "returned" => path = WalkFrom(ref.directions, start, MaxPath)

====
